---- MODULE Spec2Model ----
(***************************************************************************)
(* A model of the URL mapping engine of url-mapper.js: the name extractor, *)
(* the similarity scorer, the loop detector, the two indices built over    *)
(* the new-site records, the per-record matching policy of processBatch,   *)
(* the batch loop of generateURLMapping, the line parser of fetchCSV and   *)
(* the two report files written at the end of a run.                       *)
(*                                                                         *)
(* Strings are TLA+ strings handled character by character (Len, SubSeq,   *)
(* \o).  Scores are exact fractions [n, d]; a JavaScript double quotient   *)
(* of two small integers compares with the literals 0.5, 0.6, 0.8, 0.9 and *)
(* 1.0 exactly as the fractions do.                                        *)
(***************************************************************************)
EXTENDS Integers, Sequences, FiniteSets, TLC

(***************************************************************************)
(* JavaScript string primitives.                                           *)
(***************************************************************************)

\* The JavaScript value undefined, distinct from every string of the inputs.
Undefined == "<undefined>"

\* s.charAt(i), 1-based: '' outside the string.
Char(s, i) == IF i >= 1 /\ i <= Len(s) THEN SubSeq(s, i, i) ELSE ""

StartsWith(s, p) == Len(s) >= Len(p) /\ SubSeq(s, 1, Len(p)) = p

Includes(s, p) ==
  \E i \in 1..(Len(s) - Len(p) + 1) : SubSeq(s, i, i + Len(p) - 1) = p

UpperChars == "ABCDEFGHIJKLMNOPQRSTUVWXYZ"

LowerChars == "abcdefghijklmnopqrstuvwxyz"

DigitChars == "0123456789"

CharSet(s) == {SubSeq(s, i, i) : i \in 1..Len(s)}

UpperSet == CharSet(UpperChars)

DigitSet == CharSet(DigitChars)

IsDigit(c) == c \in DigitSet

LowerChar(c) ==
  IF c \in UpperSet
    THEN Char(LowerChars, CHOOSE i \in 1..Len(UpperChars) : Char(UpperChars, i) = c)
    ELSE c

RECURSIVE LowerFrom(_, _)
LowerFrom(s, i) ==
  IF i > Len(s) THEN "" ELSE LowerChar(Char(s, i)) \o LowerFrom(s, i + 1)

\* s.toLowerCase(): a string without upper-case letters is returned as it is.
ToLowerCase(s) ==
  IF \A i \in 1..Len(s) : Char(s, i) \notin UpperSet THEN s ELSE LowerFrom(s, 1)

SetMin(P) == CHOOSE i \in P : \A j \in P : i <= j

\* The least index of P, or none when P is empty.
MinOr(P, none) == IF P = {} THEN none ELSE SetMin(P)

\* The index of the first character of s that is in the set stops, or
\* Len(s) + 1.
FirstOf(s, stops) == MinOr({i \in 1..Len(s) : Char(s, i) \in stops}, Len(s) + 1)

\* s.split(sep) for a one-character separator: always at least one piece.
RECURSIVE Split(_, _)
Split(s, sep) ==
  LET k == FirstOf(s, {sep})
  IN  IF k <= Len(s)
        THEN <<SubSeq(s, 1, k - 1)>> \o Split(SubSeq(s, k + 1, Len(s)), sep)
        ELSE <<s>>

\* array.filter(s => s): the non-empty strings, in order.
NonEmpty(x) == x # ""

FilterTruthy(arr) == SelectSeq(arr, NonEmpty)

\* array.indexOf(x), 0-based, -1 when absent.
ArrayIndexOf(arr, x) ==
  IF \E i \in 1..Len(arr) : arr[i] = x
    THEN (CHOOSE i \in 1..Len(arr) : arr[i] = x /\ \A j \in 1..(i - 1) : arr[j] # x) - 1
    ELSE -1

\* array.join(sep)
RECURSIVE Join(_, _)
Join(arr, sep) ==
  IF Len(arr) = 0 THEN ""
  ELSE IF Len(arr) = 1 THEN arr[1]
  ELSE arr[1] \o sep \o Join(Tail(arr), sep)

\* pattern.replace(/\//g, '')
RemoveSlashes(s) == Join(Split(s, "/"), "")

\* s.replace(/X+$/, '') for one character X: drop the trailing run of X.
StripTrailing(s, c) ==
  SubSeq(s, 1, MinOr({i \in 1..Len(s) : \A j \in i..Len(s) : Char(s, j) = c},
                     Len(s) + 1) - 1)

(***************************************************************************)
(* new URL(fullUrl).pathname of the WHATWG parser, for http(s) URLs over   *)
(* letters, digits and the punctuation - / : . ? # and space, without dot  *)
(* segments: the parse fails when the string has no "http:" or "https:"    *)
(* scheme, when the host is empty or holds a space, or when the port is    *)
(* not a number.                                                           *)
(***************************************************************************)
SkipSlashes(s) ==
  SubSeq(s, MinOr({i \in 1..Len(s) : Char(s, i) # "/"}, Len(s) + 1), Len(s))

ParseFailure == [ok |-> FALSE, pathname |-> ""]

\* The path: what precedes the query and the fragment, "/" when empty.
PathOf(tail) ==
  LET pathEnd == FirstOf(tail, {"?", "#"})
  IN  IF pathEnd = 1 THEN "/" ELSE SubSeq(tail, 1, pathEnd - 1)

ParseHostPort(host, port, tail) ==
  IF \/ host = ""
     \/ " " \in CharSet(host)
     \/ \E i \in 1..Len(port) : ~IsDigit(Char(port, i))
    THEN ParseFailure
    ELSE [ok |-> TRUE, pathname |-> PathOf(tail)]

\* The authority is host, or host:port.
ParseAuthority(authority, tail) ==
  ParseHostPort(SubSeq(authority, 1, FirstOf(authority, {":"}) - 1),
                SubSeq(authority, FirstOf(authority, {":"}) + 1, Len(authority)),
                tail)

\* rest: the URL after its scheme and the slashes that follow it.
ParseAfterScheme(rest) ==
  ParseAuthority(SubSeq(rest, 1, FirstOf(rest, {"/", "?", "#"}) - 1),
                 SubSeq(rest, FirstOf(rest, {"/", "?", "#"}), Len(rest)))

ParseURL(fullUrl) ==
  IF ~(StartsWith(fullUrl, "http:") \/ StartsWith(fullUrl, "https:"))
    THEN ParseFailure
    ELSE ParseAfterScheme(
           SkipSlashes(SubSeq(fullUrl, FirstOf(fullUrl, {":"}) + 1, Len(fullUrl))))

\* url.startsWith('http') ? url : `https://example.com${url}`; a call on
\* undefined throws, which every caller catches like a failed parse.
ResolveURL(url) ==
  IF url = Undefined THEN ParseFailure
  ELSE ParseURL(IF StartsWith(url, "http") THEN url ELSE "https://example.com" \o url)

(***************************************************************************)
(* CONFIG: the settings the engine reads.                                  *)
(***************************************************************************)
productUrlPatterns == <<"/product/", "/shop/">>

categoryUrlPatterns == <<"/product-category/", "/category/", "/shop/">>

newSiteBaseUrl == "https://example.com"

similarityThreshold == [n |-> 1, d |-> 2]

highConfidenceThreshold == [n |-> 4, d |-> 5]

mediumConfidenceThreshold == [n |-> 3, d |-> 5]

(***************************************************************************)
(* cleanProductName: nine replace calls, each removing the leftmost match  *)
(* of its regular expression.                                              *)
(***************************************************************************)

\* The last index of the maximal run of digits of s that starts at i, or
\* i - 1 when s has no digit at i: the greedy \d+.
DigitsEnd(s, i) ==
  MinOr({j \in i..Len(s) : ~IsDigit(Char(s, j))}, Len(s) + 1) - 1

LiteralAt(s, i, lit) ==
  i >= 1 /\ i + Len(lit) - 1 <= Len(s) /\ SubSeq(s, i, i + Len(lit) - 1) = lit

\* A match of \d+ that reaches from start to end, or 0 when end < start.
AtLeastOne(end, start) == IF end >= start THEN end ELSE 0

\* \d+ matched at start: the index of its last character, or 0.
Digits(s, start) == AtLeastOne(DigitsEnd(s, start), start)

\* x\d+ matched after a match that ends at a: the index of its last
\* character, or 0 (also when a = 0: nothing was matched before).
NextDim(s, a) ==
  IF a > 0 /\ LiteralAt(s, a + 1, "x") THEN Digits(s, a + 2) ELSE 0

\* /-\d+x\d+x\d+/ matched at i: the index of the last matched character, or 0.
MatchDims3(s, i) ==
  IF LiteralAt(s, i, "-") THEN NextDim(s, NextDim(s, Digits(s, i + 1))) ELSE 0

\* /-\d+x\d+/
MatchDims2(s, i) ==
  IF LiteralAt(s, i, "-") THEN NextDim(s, Digits(s, i + 1)) ELSE 0

\* The unit matched at u: the index of its last character, or 0.
UnitAt(s, u, unit) == IF LiteralAt(s, u, unit) THEN u + Len(unit) - 1 ELSE 0

\* -?unit matched after digits that end at a.
UnitAfter(s, a, unit) ==
  IF a = 0 THEN 0
  ELSE UnitAt(s, IF LiteralAt(s, a + 1, "-") THEN a + 2 ELSE a + 1, unit)

\* /-\d+-?unit/
MatchUnit(s, i, unit) ==
  IF LiteralAt(s, i, "-") THEN UnitAfter(s, Digits(s, i + 1), unit) ELSE 0

\* s without the characters from first to the end of the match there; s
\* itself when first = 0.
CutMatch(s, ends, first) ==
  IF first = 0 THEN s
  ELSE SubSeq(s, 1, first - 1) \o SubSeq(s, ends[first] + 1, Len(s))

\* s.replace(re, '') where ends[i] is the end of the match of re at i, or 0:
\* the leftmost match is removed.
ReplaceFirst(s, ends) ==
  CutMatch(s, ends, MinOr({i \in 1..Len(s) : ends[i] > 0}, 0))

RemoveDims3(s) == ReplaceFirst(s, [i \in 1..Len(s) |-> MatchDims3(s, i)])

RemoveDims2(s) == ReplaceFirst(s, [i \in 1..Len(s) |-> MatchDims2(s, i)])

RemoveUnit(s, unit) == ReplaceFirst(s, [i \in 1..Len(s) |-> MatchUnit(s, i, unit)])

\* name.replace(/-[0-9]$/, '')
StripFinalDigit(s) ==
  IF Len(s) >= 2 /\ Char(s, Len(s) - 1) = "-" /\ IsDigit(Char(s, Len(s)))
    THEN SubSeq(s, 1, Len(s) - 2)
    ELSE s

\* The eight replace calls of lines 196-203, innermost first.
RemoveSpecifications(name) ==
  RemoveUnit(
    RemoveUnit(
      RemoveUnit(
        RemoveUnit(
          RemoveUnit(RemoveDims2(RemoveDims3(StripFinalDigit(name))), "mil"),
          "inch"),
        "oz"),
      "lb"),
    "gal")

cleanProductName(name) ==
  IF name = Undefined \/ name = "" THEN ""
  ELSE StripTrailing(RemoveSpecifications(name), "-")

(***************************************************************************)
(* extractProductName: the segment after the first configured product      *)
(* marker found in the path, else the last segment, cleaned; '' when the   *)
(* URL does not parse.                                                     *)
(***************************************************************************)
LastSegment(segments) ==
  IF Len(segments) = 0 THEN Undefined ELSE segments[Len(segments)]

\* The loop over CONFIG.productUrlPatterns: it stops at the first pattern
\* the path includes.
PatternName(path, segments) ==
  LET P == {k \in 1..Len(productUrlPatterns) : Includes(path, productUrlPatterns[k])}
  IN  IF P = {} THEN LastSegment(segments)
      ELSE LET patternIndex ==
                 ArrayIndexOf(segments, RemoveSlashes(productUrlPatterns[SetMin(P)]))
           IN  IF patternIndex >= 0 /\ patternIndex < Len(segments) - 1
                 THEN segments[patternIndex + 2]
                 ELSE LastSegment(segments)

\* Lines 166-185, for the path of a URL that parsed.
PathProductName(path, segments) == cleanProductName(PatternName(path, segments))

\* Lines 165-188, for the outcome of new URL(fullUrl).
ParsedProductName(parsed) ==
  IF ~parsed.ok THEN ""
  ELSE PathProductName(parsed.pathname, FilterTruthy(Split(parsed.pathname, "/")))

extractProductName(url) == ParsedProductName(ResolveURL(url))

(***************************************************************************)
(* calculateNameSimilarity: 0, 1.0, 0.9 or the Jaccard index of the two    *)
(* sets of hyphen-separated words.                                         *)
(***************************************************************************)
Zero == [n |-> 0, d |-> 1]

One == [n |-> 1, d |-> 1]

NineTenths == [n |-> 9, d |-> 10]

ScoreEq(x, y) == x.n * y.d = y.n * x.d

ScoreGt(x, y) == x.n * y.d > y.n * x.d

ScoreGe(x, y) == x.n * y.d >= y.n * x.d

WordSet(name) == LET w == Split(name, "-") IN {w[i] : i \in 1..Len(w)}

\* calculateNameSimilarity without its line 216 (if (n1 === n2) return 1.0).
calculateNameSimilarityNoEqualityTest(name1, name2) ==
  IF name1 = Undefined \/ name1 = "" \/ name2 = Undefined \/ name2 = "" THEN Zero
  ELSE
    LET n1     == ToLowerCase(name1)
        n2     == ToLowerCase(name2)
        words1 == WordSet(n1)
        words2 == WordSet(n2)
    IN  IF Includes(n1, n2) THEN NineTenths
        ELSE IF Includes(n2, n1) THEN NineTenths
        ELSE [n |-> Cardinality(words1 \cap words2),
              d |-> Cardinality(words1 \cup words2)]

\* calculateNameSimilarity without its line 218 (if (n2.includes(n1)) return 0.9).
calculateNameSimilarityOneWayContainment(name1, name2) ==
  IF name1 = Undefined \/ name1 = "" \/ name2 = Undefined \/ name2 = "" THEN Zero
  ELSE
    LET n1     == ToLowerCase(name1)
        n2     == ToLowerCase(name2)
        words1 == WordSet(n1)
        words2 == WordSet(n2)
    IN  IF n1 = n2 THEN One
        ELSE IF Includes(n1, n2) THEN NineTenths
        ELSE [n |-> Cardinality(words1 \cap words2),
              d |-> Cardinality(words1 \cup words2)]

\* calculateNameSimilarity without the toLowerCase of lines 213-214.
calculateNameSimilarityCaseSensitive(name1, name2) ==
  IF name1 = Undefined \/ name1 = "" \/ name2 = Undefined \/ name2 = "" THEN Zero
  ELSE
    LET words1 == WordSet(name1)
        words2 == WordSet(name2)
    IN  IF name1 = name2 THEN One
        ELSE IF Includes(name1, name2) THEN NineTenths
        ELSE IF Includes(name2, name1) THEN NineTenths
        ELSE [n |-> Cardinality(words1 \cap words2),
              d |-> Cardinality(words1 \cup words2)]

calculateNameSimilarity(name1, name2) ==
  IF name1 = Undefined \/ name1 = "" \/ name2 = Undefined \/ name2 = "" THEN Zero
  ELSE
    LET n1     == ToLowerCase(name1)
        n2     == ToLowerCase(name2)
        words1 == WordSet(n1)
        words2 == WordSet(n2)
    IN  IF n1 = n2 THEN One
        ELSE IF Includes(n1, n2) THEN NineTenths
        ELSE IF Includes(n2, n1) THEN NineTenths
        ELSE [n |-> Cardinality(words1 \cap words2),
              d |-> Cardinality(words1 \cup words2)]

(***************************************************************************)
(* areUrlsEffectivelySame: equal paths after dropping trailing slashes and *)
(* lower-casing; false when either URL does not parse.                     *)
(***************************************************************************)
normalizeUrl(url) ==
  LET parsed == ResolveURL(url)
  IN  [ok |-> parsed.ok,
       path |-> IF parsed.ok THEN ToLowerCase(StripTrailing(parsed.pathname, "/")) ELSE ""]

(***************************************************************************)
(* Plain JavaScript objects used as maps ({} with obj[key] reads and       *)
(* writes): own keys in insertion order with their values, and the         *)
(* properties every object inherits from Object.prototype.  Identifiers    *)
(* and names of the inputs are never "__proto__".                          *)
(***************************************************************************)
EmptyObject == [keys |-> <<>>, vals |-> <<>>]

\* The position of an own key, or 0.
OwnIndex(obj, key) ==
  IF \E k \in 1..Len(obj.keys) : obj.keys[k] = key
    THEN CHOOSE k \in 1..Len(obj.keys) : obj.keys[k] = key
    ELSE 0

HasOwn(obj, key) == OwnIndex(obj, key) > 0

\* Function-valued properties of Object.prototype and their .length.
InheritedNames == {"constructor", "hasOwnProperty", "toString", "valueOf"}

InheritedLength(key) ==
  IF key \in {"constructor", "hasOwnProperty"} THEN 1 ELSE 0

\* obj[key] is truthy: an own value (entries and non-empty arrays), or an
\* inherited function.
Truthy(obj, key) == HasOwn(obj, key) \/ key \in InheritedNames

\* obj[key] = val
SetOwn(obj, key, val) ==
  IF HasOwn(obj, key)
    THEN [obj EXCEPT !.vals[OwnIndex(obj, key)] = val]
    ELSE [keys |-> Append(obj.keys, key), vals |-> Append(obj.vals, val)]

\* A canonical array index ("0", "7", "42"): such keys are enumerated first,
\* in ascending numeric order.  Keys of the inputs have at most 9 digits.
IsArrayIndex(key) ==
  /\ key # ""
  /\ \A k \in 1..Len(key) : IsDigit(Char(key, k))
  /\ (Len(key) > 1 => Head(key) # "0")
  /\ Len(key) <= 9

DigitValue(c) == (CHOOSE k \in 1..Len(DigitChars) : Char(DigitChars, k) = c) - 1

RECURSIVE ToNumber(_)
ToNumber(s) ==
  IF s = "" THEN 0
  ELSE 10 * ToNumber(SubSeq(s, 1, Len(s) - 1)) + DigitValue(Char(s, Len(s)))

\* Positions of the own keys in the order of Object.keys / Object.entries.
RECURSIVE SortedIndexKeys(_, _)
SortedIndexKeys(obj, todo) ==
  IF todo = {} THEN <<>>
  ELSE LET m == CHOOSE k \in todo :
                  \A j \in todo : ToNumber(obj.keys[k]) <= ToNumber(obj.keys[j])
       IN  <<m>> \o SortedIndexKeys(obj, todo \ {m})

RECURSIVE StringKeyPositions(_, _)
StringKeyPositions(obj, k) ==
  IF k > Len(obj.keys) THEN <<>>
  ELSE (IF IsArrayIndex(obj.keys[k]) THEN <<>> ELSE <<k>>)
         \o StringKeyPositions(obj, k + 1)

OwnKeyOrder(obj) ==
  SortedIndexKeys(obj, {k \in 1..Len(obj.keys) : IsArrayIndex(obj.keys[k])})
    \o StringKeyPositions(obj, 1)

(***************************************************************************)
(* The inputs: the records of the two CSV files and the settings of CONFIG *)
(* that vary.                                                              *)
(***************************************************************************)
MaxOld == 2

MaxNew == 2

MaxBatchSize == 2

Record(sku, url) == [sku |-> sku, url |-> url]

OldRecords ==
  { Record("123", "/product/widget-5"),
    Record("", "/product/steel-box-24x18x12"),
    Record("", "/product/box-steel-red"),
    Record("", "/product/abc"),
    Record("", "/product-category/corrugate"),
    Record("", "/category/boxes"),
    Record("", "/about-us"),
    Record("123", "http//old.com/product/widget"),
    Record("", "http//old.com/product/widget"),
    Record("", "http//old.com/category/boxes"),
    Record("", "/product/constructor"),
    Record("999", "/product/unknown-thing"),
    Record("", "/product-category/shirts"),
    Record("", "/product/widget-77"),
    Record("", "/product/box-steel-red-big") }

NewRecords ==
  { Record("123", "/products/widget"),
    Record("", "/products/steel-box"),
    Record("", "/Product/ABC/"),
    Record("123", "/Product/Widget-5/"),
    Record("", "/products/77") }

\* CONFIG.categoryMappings: empty as shipped, or filled in by the user, with
\* a key of one path segment or of several.
CategoryMappingChoices ==
  { EmptyObject,
    [keys |-> <<"corrugate", "boxes", "product-category/shirts">>,
     vals |-> <<"/product-category/corrugated-boxes/", "/category/boxes/",
                "/collections/shirts">>] }

\* A second pair of input files: old records of every URL kind (category
\* paths with one or two mapped segments, a path with the marker /shop/ of
\* both pattern lists, a path with no marker), identifiers that repeat in
\* the new-site file, an identifier that names a property every object
\* inherits, and URLs that new URL() rejects.
OldRecordKinds ==
  { Record("", "/category/boxes/corrugate"),
    Record("", "/category/boxes"),
    Record("", "/shop/box-steel"),
    Record("", "/about-us"),
    Record("123", "/product/widget-5"),
    Record("123", "http//old.com/product/widget"),
    Record("constructor", "/product/widget-5"),
    Record("", "http//old.com/category/boxes") }

NewRecordKinds ==
  { Record("123", "/products/widget"),
    Record("123", "/Product/Widget-5/"),
    Record("456", "/products/steel-box"),
    Record("123", "http//old.com/product/widget") }

SeqsUpTo(S, n) == UNION {[1..k -> S] : k \in 0..n}

(***************************************************************************)
(* fetchCSV, for one line of a file (lines 101-140): the line is trimmed,  *)
(* split at the first configured delimiter it holds, and every part is     *)
(* trimmed and loses one leading and one trailing double quote.            *)
(***************************************************************************)
Whitespace == {" ", "\t", "\r"}

\* s.trim()
Trim(s) ==
  SubSeq(s, MinOr({i \in 1..Len(s) : Char(s, i) \notin Whitespace}, Len(s) + 1),
            Len(s) - MinOr({k \in 0..Len(s) : Char(s, Len(s) - k) \notin Whitespace}, 0))

StripTrailingQuote(p) ==
  IF Len(p) > 0 /\ Char(p, Len(p)) = "\"" THEN SubSeq(p, 1, Len(p) - 1) ELSE p

\* p.replace(/^"|"$/g, '')
StripQuotes(p) ==
  StripTrailingQuote(IF Char(p, 1) = "\"" THEN SubSeq(p, 2, Len(p)) ELSE p)

\* Line 132
CleanPart(p) == StripQuotes(Trim(p))

\* Lines 112-119: the space delimiter splits at the first space only.
SplitAtFirstSpace(line) ==
  IF FirstOf(line, {" "}) > 1 /\ FirstOf(line, {" "}) <= Len(line)
    THEN <<SubSeq(line, 1, FirstOf(line, {" "}) - 1),
           SubSeq(line, FirstOf(line, {" "}) + 1, Len(line))>>
    ELSE <<>>

\* Lines 106-124: the parts of a line, none when no delimiter applies.
SplitLine(line) ==
  IF Includes(line, ",") THEN Split(line, ",")
  ELSE IF Includes(line, "\t") THEN Split(line, "\t")
  ELSE IF Includes(line, ";") THEN Split(line, ";")
  ELSE SplitAtFirstSpace(line)

NoEntry == [ok |-> FALSE, entry |-> [sku |-> "", url |-> ""]]

\* Lines 126-140
ParseParts(parts) ==
  IF Len(parts) >= 2
    THEN [ok |-> TRUE, entry |-> [sku |-> CleanPart(parts[1]), url |-> CleanPart(parts[2])]]
    ELSE NoEntry

ParseTrimmed(line) == IF line = "" THEN NoEntry ELSE ParseParts(SplitLine(line))

ParseLine(raw) == ParseTrimmed(Trim(raw))

\* Lines of an input file.
Lines ==
  { "123,/product/widget",
    "\"123\",\"/product/widget\"",
    " 123 , /product/widget ",
    "123,/product/a\"b",
    "\"\"12\"\",/product/x",
    "AB.1.2\t/product/a b",
    "123;/product/a",
    "123 /product/a b",
    "/product/only",
    ",",
    "" }

\* The identifiers and URLs of the records parsed from these lines.
FieldValues ==
  UNION {{ParseLine(l).entry.sku, ParseLine(l).entry.url} :
           l \in {x \in Lines : ParseLine(x).ok}}

(***************************************************************************)
(* The arguments of the calls of the pure functions on their own.          *)
(***************************************************************************)
MaxWords == 2

Words == {"", "a", "b", "ab", "A"}

\* Names: up to MaxWords words joined by hyphens.
Names == {Join(w, "-") : w \in SeqsUpTo(Words, MaxWords)}

\* The units of lines 199-203.
Units == {"mil", "inch", "oz", "lb", "gal"}

\* Product names: a stem, then a hyphen, a number, both or neither, then a
\* unit or none, then the end of the name or more of it.
SpecifiedNames ==
  {stem \o num \o unit \o rest :
     stem \in {"film", "a"}, num \in {"", "-", "-80", "-80-"},
     unit \in Units \cup {""}, rest \in {"", "-roll", "k", "-"}}

UrlPrefixes == {"", "https://example.com", "http://old.com", "http//old.com"}

UrlPaths == {"", "/", "/a", "/a/", "/A", "/a//", "/b", "/a/b", "/a?x=/b"}

Urls == {p \o q : p \in UrlPrefixes, q \in UrlPaths} \cup {Undefined}

(***************************************************************************)
(* The values of the pure functions on the strings of the inputs, computed *)
(* once: the engine looks them up instead of computing them again in every *)
(* state.  KnownUrls holds every URL string a run or a call can meet: the  *)
(* URLs of the records, the category URLs, the arguments of the calls and  *)
(* undefined; KnownNames holds every name extracted from them.             *)
(***************************************************************************)
KnownUrls ==
  {r.url : r \in OldRecords \cup NewRecords \cup OldRecordKinds \cup NewRecordKinds}
    \cup UNION {{newSiteBaseUrl \o m.vals[k] : k \in DOMAIN m.vals} :
                   m \in CategoryMappingChoices}
    \cup Urls

extractProductNameTable == [u \in KnownUrls |-> extractProductName(u)]

normalizeUrlTable == [u \in KnownUrls |-> normalizeUrl(u)]

ResolveURLTable == [u \in KnownUrls |-> ResolveURL(u)]

KnownNames == {extractProductNameTable[u] : u \in KnownUrls}

Pairs(S) == S \X S

calculateNameSimilarityTable ==
  [p \in Pairs(KnownNames) |-> calculateNameSimilarity(p[1], p[2])]

ExtractedName(url) == extractProductNameTable[url]

NormalizedUrl(url) == normalizeUrlTable[url]

ResolvedUrl(url) == ResolveURLTable[url]

Similarity(name1, name2) == calculateNameSimilarityTable[<<name1, name2>>]

\* Lines 249-259: the comparison of the two normalized paths; a URL that
\* did not parse makes the function return false (lines 260-263).
SamePaths(old, new) ==
  IF ~old.ok \/ ~new.ok THEN FALSE
  ELSE IF old.path = new.path THEN TRUE
  ELSE IF old.path \o "/" = new.path \/ old.path = new.path \o "/" THEN TRUE
  ELSE FALSE

\* normalizeUrl without its toLowerCase.
WithoutLowerCase(parsed) ==
  [ok |-> parsed.ok,
   path |-> IF parsed.ok THEN StripTrailing(parsed.pathname, "/") ELSE ""]

\* areUrlsEffectivelySame with only the old path lower-cased.
areUrlsEffectivelySameOldLowerCased(oldUrl, newUrl) ==
  SamePaths(NormalizedUrl(oldUrl), WithoutLowerCase(ResolvedUrl(newUrl)))

areUrlsEffectivelySame(oldUrl, newUrl) ==
  SamePaths(NormalizedUrl(oldUrl), NormalizedUrl(newUrl))

(***************************************************************************)
(* The two indices over the new-site records (generateURLMapping).         *)
(***************************************************************************)

\* skuIndex built without the test of line 472: a record with an empty
\* identifier is indexed under ''.
RECURSIVE BuildSkuIndexWithEmptyKeys(_, _)
BuildSkuIndexWithEmptyKeys(entries, obj) ==
  IF Len(entries) = 0 THEN obj
  ELSE BuildSkuIndexWithEmptyKeys(Tail(entries),
         SetOwn(obj, Head(entries).sku, Head(entries)))

\* skuIndex: newURLs.forEach(entry => { if (entry.sku) skuIndex[entry.sku] = entry })
RECURSIVE BuildSkuIndex(_, _)
BuildSkuIndex(entries, obj) ==
  IF Len(entries) = 0 THEN obj
  ELSE BuildSkuIndex(Tail(entries),
         IF Head(entries).sku # "" THEN SetOwn(obj, Head(entries).sku, Head(entries))
                                   ELSE obj)

\* newProductIndex: the records grouped by extracted name.  An extracted
\* name that is an inherited function name makes push a TypeError, which
\* ends the run: threw is then TRUE.
RECURSIVE BuildNameIndex(_, _)

\* Lines 483-488 for one record and its extracted name.
AddToNameIndex(obj, entry, productName) ==
  IF productName = "" THEN [threw |-> FALSE, index |-> obj]
  ELSE IF HasOwn(obj, productName)
    THEN [threw |-> FALSE,
          index |-> SetOwn(obj, productName,
                           Append(obj.vals[OwnIndex(obj, productName)], entry))]
  ELSE IF productName \in InheritedNames
    THEN [threw |-> TRUE, index |-> obj]
  ELSE [threw |-> FALSE, index |-> SetOwn(obj, productName, <<entry>>)]

\* The forEach goes on after a callback that returned.
BuildNameIndexAfter(entries, added) ==
  IF added.threw THEN added ELSE BuildNameIndex(Tail(entries), added.index)

BuildNameIndex(entries, obj) ==
  IF Len(entries) = 0 THEN [threw |-> FALSE, index |-> obj]
  ELSE BuildNameIndexAfter(entries,
         AddToNameIndex(obj, Head(entries), ExtractedName(Head(entries).url)))

(***************************************************************************)
(* One iteration of the loop of processBatch: what the record adds, and to *)
(* which of the lists mapping, unmapped, categoryMappings, loopDetected.   *)
(***************************************************************************)
SomePattern(url, patterns) ==
  \E k \in 1..Len(patterns) : Includes(url, patterns[k])

\* similarity.toFixed(2) for a score in [0, 1].
ToFixed2(score) ==
  LET h == (200 * score.n + score.d) \div (2 * score.d)
  IN  Char(DigitChars, (h \div 100) + 1) \o "."
        \o Char(DigitChars, ((h \div 10) % 10) + 1)
        \o Char(DigitChars, (h % 10) + 1)

MatchResult(oldURL, newURL, oldName, newName, matchType, similarity, sku) ==
  [oldURL |-> oldURL, newURL |-> newURL, oldName |-> oldName, newName |-> newName,
   matchType |-> matchType, similarity |-> similarity, sku |-> sku]

LoopEntry(oldURL, newURL, reason, oldName, newName, sku) ==
  [oldURL |-> oldURL, newURL |-> newURL, reason |-> reason,
   oldName |-> oldName, newName |-> newName, sku |-> sku]

CategoryEntry(oldURL, newURL, matchType, similarity, category) ==
  [oldURL |-> oldURL, newURL |-> newURL, matchType |-> matchType,
   similarity |-> similarity, category |-> category]

\* What one iteration does: the pushes it makes, in order, and whether a
\* TypeError leaves processBatch.
Push(list, entry) == [threw |-> FALSE, pushes |-> <<[list |-> list, entry |-> entry]>>]

NoPush == [threw |-> FALSE, pushes |-> <<>>]

Throw == [threw |-> TRUE, pushes |-> <<>>]

\* Lines 281-300, for the url property of the record found.
SkuMatch(oldProduct, newURL) ==
  IF areUrlsEffectivelySame(oldProduct.url, newURL)
    THEN Push("loopDetected",
              LoopEntry(oldProduct.url, newURL, "identical_urls",
                        Undefined, Undefined, oldProduct.sku))
    ELSE Push("mapping",
              MatchResult(oldProduct.url, newURL,
                          ExtractedName(oldProduct.url), ExtractedName(newURL),
                          "sku_match", "1.00", oldProduct.sku))

\* Lines 276-301: the identifier branch.  An inherited function found under
\* the identifier has no url property.
SkuBranch(oldProduct, skuIdx) ==
  SkuMatch(oldProduct,
           IF HasOwn(skuIdx, oldProduct.sku)
             THEN skuIdx.vals[OwnIndex(skuIdx, oldProduct.sku)].url
             ELSE Undefined)

\* The slug found by walking the keys of the table instead of the segments
\* of the path: the first key that is a segment.
FindCategorySlugInKeyOrder(segments, mappings) ==
  IF \E k \in 1..Len(mappings.keys) : \E j \in 1..Len(segments) :
       segments[j] = mappings.keys[k]
    THEN mappings.keys[CHOOSE k \in 1..Len(mappings.keys) :
                         /\ \E j \in 1..Len(segments) : segments[j] = mappings.keys[k]
                         /\ \A i \in 1..(k - 1) : \A j \in 1..Len(segments) :
                              segments[j] # mappings.keys[i]]
    ELSE Undefined

\* segments.find(segment => Object.keys(CONFIG.categoryMappings).some(key => segment === key))
FindCategorySlug(segments, mappings) ==
  IF \E k \in 1..Len(segments) : HasOwn(mappings, segments[k])
    THEN segments[CHOOSE k \in 1..Len(segments) :
                    /\ HasOwn(mappings, segments[k])
                    /\ \A j \in 1..(k - 1) : ~HasOwn(mappings, segments[j])]
    ELSE Undefined

\* Lines 320-337, for the new URL of a mapped category.
CategoryRedirect(oldProduct, newCategoryUrl) ==
  IF areUrlsEffectivelySame(oldProduct.url, newCategoryUrl)
    THEN Push("loopDetected",
              LoopEntry(oldProduct.url, newCategoryUrl, "identical_category",
                        Undefined, Undefined, Undefined))
    ELSE Push("categoryMappings",
              CategoryEntry(oldProduct.url, newCategoryUrl,
                            "category_redirect", "1.00", Undefined))

\* Lines 319-343, for the segments of the path and the slug found.
CategoryFor(oldProduct, mappings, segments, categorySlug) ==
  IF categorySlug # Undefined /\ mappings.vals[OwnIndex(mappings, categorySlug)] # ""
    THEN CategoryRedirect(oldProduct,
           newSiteBaseUrl \o mappings.vals[OwnIndex(mappings, categorySlug)])
    ELSE Push("categoryMappings",
              CategoryEntry(oldProduct.url, Undefined, Undefined, Undefined,
                            Join(segments, "/")))

\* Lines 312-343, for the segments of the path.
CategoryOfSegments(oldProduct, mappings, segments) ==
  CategoryFor(oldProduct, mappings, segments, FindCategorySlug(segments, mappings))

\* Lines 310-346, for the outcome of new URL(...): a failed parse is caught
\* and the record pushes nothing.
CategoryOfParsed(oldProduct, mappings, parsed) ==
  IF ~parsed.ok THEN NoPush
  ELSE CategoryOfSegments(oldProduct, mappings,
                          FilterTruthy(Split(parsed.pathname, "/")))

\* Lines 308-347: the category branch.
CategoryBranch(oldProduct, mappings) ==
  CategoryOfParsed(oldProduct, mappings, ResolvedUrl(oldProduct.url))

\* Lines 361-377: the keys scoring above the threshold, in Object.entries
\* order, then a stable sort by descending score: the first key with the
\* highest score wins.  The result is the position of that key, or 0.
FirstBest(order, scores) ==
  LET above == {k \in 1..Len(order) : ScoreGt(scores[k], similarityThreshold)}
  IN  IF above = {} THEN 0
      ELSE order[CHOOSE k \in above :
                   /\ \A j \in above : ScoreGe(scores[k], scores[j])
                   /\ \A j \in above : (j < k => ScoreGt(scores[k], scores[j]))]

\* The score of every key, in Object.entries order.
KeyScores(productName, nameIdx, order) ==
  [k \in 1..Len(order) |-> Similarity(productName, nameIdx.keys[order[k]])]

BestFuzzyKeyIn(productName, nameIdx, order) ==
  FirstBest(order, KeyScores(productName, nameIdx, order))

BestFuzzyKey(productName, nameIdx) ==
  BestFuzzyKeyIn(productName, nameIdx, OwnKeyOrder(nameIdx))

\* The classification with the medium test placed before the high test.
ClassifyMatchMediumFirst(similarity) ==
  IF ScoreEq(similarity, One) THEN "exact_match"
  ELSE IF ScoreGe(similarity, mediumConfidenceThreshold) THEN "medium_confidence_match"
  ELSE IF ScoreGe(similarity, highConfidenceThreshold) THEN "high_confidence_match"
  ELSE "low_confidence_match"

ClassifyMatch(similarity) ==
  IF ScoreEq(similarity, One) THEN "exact_match"
  ELSE IF ScoreGe(similarity, highConfidenceThreshold) THEN "high_confidence_match"
  ELSE IF ScoreGe(similarity, mediumConfidenceThreshold) THEN "medium_confidence_match"
  ELSE "low_confidence_match"

\* Lines 395-415: the entry of the mapping list for a name match.
ScoredMatch(oldProduct, bestMatch, productName, newName, similarity) ==
  MatchResult(oldProduct.url, bestMatch.url, productName, newName,
              ClassifyMatch(similarity), ToFixed2(similarity), Undefined)

\* The entry with the score 1.0 of the identifier branch in place of the
\* score of its two names.
NameMatchWithFixedScore(oldProduct, bestMatch, productName, newName) ==
  ScoredMatch(oldProduct, bestMatch, productName, newName, One)

NameMatch(oldProduct, bestMatch, productName, newName) ==
  ScoredMatch(oldProduct, bestMatch, productName, newName,
              Similarity(productName, newName))

\* Lines 381-415, for the first record of bestMatches.
CheckedMatch(oldProduct, bestMatch, productName) ==
  IF areUrlsEffectivelySame(oldProduct.url, bestMatch.url)
    THEN Push("loopDetected",
              LoopEntry(oldProduct.url, bestMatch.url, "identical_product",
                        productName, ExtractedName(bestMatch.url), Undefined))
    ELSE Push("mapping",
              NameMatch(oldProduct, bestMatch, productName,
                        ExtractedName(bestMatch.url)))

\* Lines 381-415 without the loop check of lines 384-393.
UncheckedMatch(oldProduct, bestMatch, productName) ==
  Push("mapping",
       NameMatch(oldProduct, bestMatch, productName, ExtractedName(bestMatch.url)))

\* Lines 375-377: the products of the best fuzzy key, if there is one.
FuzzyMatches(nameIdx, fuzzy) == IF fuzzy > 0 THEN nameIdx.vals[fuzzy] ELSE <<>>

\* Lines 358-378: bestMatches.
BestMatches(productName, nameIdx) ==
  IF HasOwn(nameIdx, productName)
    THEN nameIdx.vals[OwnIndex(nameIdx, productName)]
    ELSE FuzzyMatches(nameIdx, BestFuzzyKey(productName, nameIdx))

\* Line 358 reads an inherited function when the name is no own key: with
\* a length above 0 its element 0 is undefined, and line 384 throws.
ReadsInheritedFunction(productName, nameIdx) ==
  /\ ~HasOwn(nameIdx, productName)
  /\ productName \in InheritedNames
  /\ InheritedLength(productName) > 0

\* The name branch without the loop check of lines 384-393.
NameBranchWithoutLoopCheck(oldProduct, nameIdx) ==
  LET productName == ExtractedName(oldProduct.url)
      bestMatches == BestMatches(productName, nameIdx)
  IN  IF productName = "" THEN Push("unmapped", oldProduct.url)
      ELSE IF ReadsInheritedFunction(productName, nameIdx) THEN Throw
      ELSE IF Len(bestMatches) = 0 THEN Push("unmapped", oldProduct.url)
      ELSE UncheckedMatch(oldProduct, bestMatches[1], productName)

\* Lines 380-418, for bestMatches.
MatchBest(oldProduct, productName, bestMatches) ==
  IF Len(bestMatches) = 0 THEN Push("unmapped", oldProduct.url)
  ELSE CheckedMatch(oldProduct, bestMatches[1], productName)

\* Lines 353-418, for the extracted name.
NameBranchFor(oldProduct, nameIdx, productName) ==
  IF productName = "" THEN Push("unmapped", oldProduct.url)
  ELSE IF ReadsInheritedFunction(productName, nameIdx) THEN Throw
  ELSE MatchBest(oldProduct, productName, BestMatches(productName, nameIdx))

\* Lines 351-418: the name branch.
NameBranch(oldProduct, nameIdx) ==
  NameBranchFor(oldProduct, nameIdx, ExtractedName(oldProduct.url))

\* The body of the loop without the continue of line 300: after a sku_match
\* the record goes on to the branches below.
MatchRecordWithoutContinue(oldProduct, nameIdx, skuIdx, mappings) ==
  LET below == IF ~SomePattern(oldProduct.url, productUrlPatterns)
                 THEN IF SomePattern(oldProduct.url, categoryUrlPatterns)
                        THEN CategoryBranch(oldProduct, mappings)
                        ELSE NoPush
                 ELSE NameBranch(oldProduct, nameIdx)
  IN  IF oldProduct.sku # "" /\ Truthy(skuIdx, oldProduct.sku)
        THEN LET first == SkuBranch(oldProduct, skuIdx)
             IN  IF first.pushes[1].list = "loopDetected" THEN first
                 ELSE [threw |-> below.threw, pushes |-> first.pushes \o below.pushes]
        ELSE below

\* The body of the loop with the identifier branch placed after the name
\* branch: a product URL never reaches it.
MatchRecordNameFirst(oldProduct, nameIdx, skuIdx, mappings) ==
  IF SomePattern(oldProduct.url, productUrlPatterns)
    THEN NameBranch(oldProduct, nameIdx)
  ELSE IF oldProduct.sku # "" /\ Truthy(skuIdx, oldProduct.sku)
    THEN SkuBranch(oldProduct, skuIdx)
  ELSE IF SomePattern(oldProduct.url, categoryUrlPatterns)
    THEN CategoryBranch(oldProduct, mappings)
  ELSE NoPush

\* The body of the loop without the continue of line 288: after an
\* identical_urls loop entry the record goes on to the branches below.
MatchRecordRetryAfterLoop(oldProduct, nameIdx, skuIdx, mappings) ==
  LET below == IF ~SomePattern(oldProduct.url, productUrlPatterns)
                 THEN IF SomePattern(oldProduct.url, categoryUrlPatterns)
                        THEN CategoryBranch(oldProduct, mappings)
                        ELSE NoPush
                 ELSE NameBranch(oldProduct, nameIdx)
  IN  IF oldProduct.sku # "" /\ Truthy(skuIdx, oldProduct.sku)
        THEN LET first == SkuBranch(oldProduct, skuIdx)
             IN  IF first.pushes[1].list = "mapping" THEN first
                 ELSE [threw |-> below.threw, pushes |-> first.pushes \o below.pushes]
        ELSE below

\* The body of the loop with the category test placed before the product
\* test: a URL with a marker of both lists goes to the category branch.
MatchRecordCategoryFirst(oldProduct, nameIdx, skuIdx, mappings) ==
  IF oldProduct.sku # "" /\ Truthy(skuIdx, oldProduct.sku)
    THEN SkuBranch(oldProduct, skuIdx)
  ELSE IF SomePattern(oldProduct.url, categoryUrlPatterns)
    THEN CategoryBranch(oldProduct, mappings)
  ELSE IF SomePattern(oldProduct.url, productUrlPatterns)
    THEN NameBranch(oldProduct, nameIdx)
  ELSE NoPush

\* Lines 273-419: the body of the loop for one record.
MatchRecord(oldProduct, nameIdx, skuIdx, mappings) ==
  IF oldProduct.sku # "" /\ Truthy(skuIdx, oldProduct.sku)
    THEN SkuBranch(oldProduct, skuIdx)
  ELSE IF ~SomePattern(oldProduct.url, productUrlPatterns)
    THEN IF SomePattern(oldProduct.url, categoryUrlPatterns)
           THEN CategoryBranch(oldProduct, mappings)
           ELSE NoPush
  ELSE NameBranch(oldProduct, nameIdx)

(***************************************************************************)
(* processBatch: the loop over the records of one batch.  Besides the four *)
(* lists the result records, for every entry, the index i of the record    *)
(* that pushed it (pushedBy), and whether the call threw.                  *)
(***************************************************************************)
ListNames == {"mapping", "unmapped", "categoryMappings", "loopDetected"}

EmptyLists == [l \in ListNames |-> <<>>]

EmptyBatchResult == [threw |-> FALSE, lists |-> EmptyLists, pushedBy |-> EmptyLists]

RECURSIVE ApplyPushes(_, _, _)
ApplyPushes(acc, pushes, i) ==
  IF Len(pushes) = 0 THEN acc
  ELSE ApplyPushes([acc EXCEPT !.lists[Head(pushes).list] = Append(@, Head(pushes).entry),
                               !.pushedBy[Head(pushes).list] = Append(@, i)],
                   Tail(pushes), i)

RECURSIVE BatchLoop(_, _, _, _, _, _)
BatchLoop(oldProducts, i, acc, nameIdx, skuIdx, mappings) ==
  IF i > Len(oldProducts) THEN acc
  ELSE LET step == MatchRecord(oldProducts[i], nameIdx, skuIdx, mappings)
       IN  IF step.threw THEN [acc EXCEPT !.threw = TRUE]
           ELSE BatchLoop(oldProducts, i + 1, ApplyPushes(acc, step.pushes, i),
                          nameIdx, skuIdx, mappings)

processBatch(oldProducts, nameIdx, skuIdx, mappings) ==
  BatchLoop(oldProducts, 1, EmptyBatchResult, nameIdx, skuIdx, mappings)

(***************************************************************************)
(* The two report files (lines 564-595): a header line, then one line per  *)
(* entry, every field between double quotes.                               *)
(***************************************************************************)

\* `${value}` in a template literal: undefined prints as the word undefined.
Template(value) == IF value = Undefined THEN "undefined" ELSE value

\* `${value || ''}`
OrEmpty(value) == IF value = Undefined THEN "" ELSE value

Quoted(text) == "\"" \o text \o "\""

MappingHeader == "old_url,new_url,old_name,new_name,match_type,similarity,sku\n"

LoopsHeader == "old_url,new_url,reason,old_name,new_name,sku\n"

\* Line 569: the row of a MatchResult.
MappingRow(m) ==
  Quoted(Template(m.oldURL)) \o "," \o Quoted(Template(m.newURL)) \o ","
    \o Quoted(Template(m.oldName)) \o "," \o Quoted(Template(m.newName)) \o ","
    \o Quoted(Template(m.matchType)) \o "," \o Quoted(Template(m.similarity)) \o ","
    \o Quoted(OrEmpty(m.sku)) \o "\n"

\* Lines 574-576: the row of a CategoryEntry, written only when it has a
\* new URL.
CategoryRow(c) ==
  IF c.newURL = Undefined \/ c.newURL = "" THEN ""
  ELSE Quoted(Template(c.oldURL)) \o "," \o Quoted(Template(c.newURL)) \o ","
         \o Quoted("") \o "," \o Quoted("") \o ","
         \o Quoted(Template(c.matchType)) \o "," \o Quoted(Template(c.similarity)) \o ","
         \o Quoted("") \o "\n"

\* Line 589: the row of a LoopEntry.
LoopRow(l) ==
  Quoted(Template(l.oldURL)) \o "," \o Quoted(Template(l.newURL)) \o ","
    \o Quoted(Template(l.reason)) \o "," \o Quoted(OrEmpty(l.oldName)) \o ","
    \o Quoted(OrEmpty(l.newName)) \o "," \o Quoted(OrEmpty(l.sku)) \o "\n"

RECURSIVE MappingRows(_)
MappingRows(list) ==
  IF Len(list) = 0 THEN "" ELSE MappingRow(Head(list)) \o MappingRows(Tail(list))

RECURSIVE CategoryRows(_)
CategoryRows(list) ==
  IF Len(list) = 0 THEN "" ELSE CategoryRow(Head(list)) \o CategoryRows(Tail(list))

RECURSIVE LoopRows(_)
LoopRows(list) ==
  IF Len(list) = 0 THEN "" ELSE LoopRow(Head(list)) \o LoopRows(Tail(list))

\* Lines 565-577.
fullCsvContent(mappings, categories) ==
  MappingHeader \o MappingRows(mappings) \o CategoryRows(categories)

\* Lines 586-590.
loopsCsvContent(loops) == LoopsHeader \o LoopRows(loops)

\* A file of the script directory that the run has not written, and one it
\* has written with fs.writeFileSync.
NotWritten == [written |-> FALSE, content |-> ""]

WrittenWith(content) == [written |-> TRUE, content |-> content]

(***************************************************************************)
(* generateURLMapping: the run.                                            *)
(***************************************************************************)
VARIABLES
  fileExists,           \* which of the two input files exist
  fileWritten,          \* the output file and the loops file
  oldURLs,              \* the records parsed from CONFIG.oldUrlsFile
  newURLs,              \* the records parsed from CONFIG.newUrlsFile
  CONFIG,               \* [categoryMappings, batchSize]
  pc,                   \* where generateURLMapping is
  skuIndex,
  newProductIndex,
  batchNum,
  allMappings,
  allUnmapped,
  allCategoryMappings,
  allLoopDetected,
  batch,                \* the last processBatch call: its argument and result
  allPushedBy           \* per accumulated list, the input position behind each entry

VARIABLES
  call,                 \* [fn, a, b]: the function called and its arguments
  fnPc,                 \* "called" or "returned"
  retScore,             \* the score returned by calculateNameSimilarity
  retSame,              \* the boolean returned by areUrlsEffectivelySame
  retRow,               \* the row written for an entry
  retName               \* the name returned by cleanProductName

fnVars == <<call, fnPc, retScore, retSame, retRow, retName>>

vars == <<oldURLs, newURLs, CONFIG, pc, skuIndex, newProductIndex, batchNum,
          allMappings, allUnmapped, allCategoryMappings, allLoopDetected, batch,
          allPushedBy, fileExists, fileWritten, call, fnPc, retScore, retSame,
          retRow, retName>>

engineVars ==
  <<oldURLs, newURLs, CONFIG, pc, skuIndex, newProductIndex, batchNum,
    allMappings, allUnmapped, allCategoryMappings, allLoopDetected, batch,
    allPushedBy, fileExists, fileWritten>>

NoBatch == [startIndex |-> 0, batchURLs |-> <<>>, result |-> EmptyBatchResult]

NoCall == [fn |-> "none", a |-> "", b |-> ""]

BothFilesExist == fileExists.oldUrlsFile /\ fileExists.newUrlsFile

NoFileWritten == [outputFile |-> NotWritten, loopsFile |-> NotWritten]

\* The state when generateURLMapping has found an input file missing, or
\* has read the two files; no function is called on its own.
Init ==
  /\ fileExists \in [oldUrlsFile : BOOLEAN, newUrlsFile : BOOLEAN]
  /\ fileWritten = NoFileWritten
  /\ oldURLs \in IF BothFilesExist THEN SeqsUpTo(OldRecords, MaxOld) ELSE {<<>>}
  /\ newURLs \in IF BothFilesExist THEN SeqsUpTo(NewRecords, MaxNew) ELSE {<<>>}
  /\ CONFIG \in [categoryMappings : CategoryMappingChoices, batchSize : 1..MaxBatchSize]
  /\ pc = "read"
  /\ skuIndex = EmptyObject
  /\ newProductIndex = EmptyObject
  /\ batchNum = 0
  /\ allMappings = <<>>
  /\ allUnmapped = <<>>
  /\ allCategoryMappings = <<>>
  /\ allLoopDetected = <<>>
  /\ batch = NoBatch
  /\ allPushedBy = EmptyLists
  /\ call = NoCall
  /\ fnPc = "idle"
  /\ retScore = Zero
  /\ retSame = FALSE
  /\ retRow = ""
  /\ retName = ""

\* The same state for the second pair of input files.
InitKinds ==
  /\ fileExists \in [oldUrlsFile : BOOLEAN, newUrlsFile : BOOLEAN]
  /\ fileWritten = NoFileWritten
  /\ oldURLs \in IF BothFilesExist THEN SeqsUpTo(OldRecordKinds, MaxOld) ELSE {<<>>}
  /\ newURLs \in IF BothFilesExist THEN SeqsUpTo(NewRecordKinds, MaxNew) ELSE {<<>>}
  /\ CONFIG \in [categoryMappings : CategoryMappingChoices, batchSize : 1..MaxBatchSize]
  /\ pc = "read"
  /\ skuIndex = EmptyObject
  /\ newProductIndex = EmptyObject
  /\ batchNum = 0
  /\ allMappings = <<>>
  /\ allUnmapped = <<>>
  /\ allCategoryMappings = <<>>
  /\ allLoopDetected = <<>>
  /\ batch = NoBatch
  /\ allPushedBy = EmptyLists
  /\ call = NoCall
  /\ fnPc = "idle"
  /\ retScore = Zero
  /\ retSame = FALSE
  /\ retRow = ""
  /\ retName = ""

\* Lines 445-456: a missing input file ends the run before anything is read.
RejectMissingFile ==
  /\ pc = "read"
  /\ ~BothFilesExist
  /\ pc' = "aborted"
  /\ UNCHANGED fnVars
  /\ UNCHANGED <<oldURLs, newURLs, CONFIG, skuIndex, newProductIndex, batchNum,
                 allMappings, allUnmapped, allCategoryMappings, allLoopDetected,
                 batch, allPushedBy, fileExists, fileWritten>>

\* The empty-input exit preceded by the write of an output file that holds
\* the header line alone.
RejectEmptyInputWritingHeader ==
  /\ pc = "read"
  /\ BothFilesExist
  /\ Len(oldURLs) = 0 \/ Len(newURLs) = 0
  /\ pc' = "aborted"
  /\ fileWritten' = [fileWritten EXCEPT !.outputFile = WrittenWith(MappingHeader)]
  /\ UNCHANGED fnVars
  /\ UNCHANGED <<oldURLs, newURLs, CONFIG, skuIndex, newProductIndex, batchNum,
                 allMappings, allUnmapped, allCategoryMappings, allLoopDetected,
                 batch, allPushedBy, fileExists>>

\* Lines 464-467: an empty input list ends the run.
RejectEmptyInput ==
  /\ pc = "read"
  /\ BothFilesExist
  /\ Len(oldURLs) = 0 \/ Len(newURLs) = 0
  /\ pc' = "aborted"
  /\ UNCHANGED fnVars
  /\ UNCHANGED <<oldURLs, newURLs, CONFIG, skuIndex, newProductIndex, batchNum,
                 allMappings, allUnmapped, allCategoryMappings, allLoopDetected,
                 batch, allPushedBy, fileExists, fileWritten>>

\* The indices built with the new-site list walked in either direction.
BuildIndicesInEitherOrder ==
  /\ pc = "read"
  /\ Len(oldURLs) > 0 /\ Len(newURLs) > 0
  /\ \E entries \in {newURLs, [k \in 1..Len(newURLs) |-> newURLs[Len(newURLs) + 1 - k]]} :
       LET built == BuildNameIndex(entries, EmptyObject)
       IN  /\ skuIndex' = BuildSkuIndex(entries, EmptyObject)
           /\ newProductIndex' = built.index
           /\ pc' = IF built.threw THEN "aborted" ELSE "batches"
  /\ UNCHANGED fnVars
  /\ UNCHANGED <<oldURLs, newURLs, CONFIG, batchNum,
                 allMappings, allUnmapped, allCategoryMappings, allLoopDetected,
                 batch, allPushedBy, fileExists, fileWritten>>

\* Lines 469-489: both indices are built from the new-site list.
BuildIndices ==
  /\ pc = "read"
  /\ Len(oldURLs) > 0 /\ Len(newURLs) > 0
  /\ LET built == BuildNameIndex(newURLs, EmptyObject)
     IN  /\ skuIndex' = BuildSkuIndex(newURLs, EmptyObject)
         /\ newProductIndex' = built.index
         /\ pc' = IF built.threw THEN "aborted" ELSE "batches"
  /\ UNCHANGED fnVars
  /\ UNCHANGED <<oldURLs, newURLs, CONFIG, batchNum,
                 allMappings, allUnmapped, allCategoryMappings, allLoopDetected,
                 batch, allPushedBy, fileExists, fileWritten>>

\* Math.ceil(oldURLs.length / batchSize)
totalBatches == (Len(oldURLs) + CONFIG.batchSize - 1) \div CONFIG.batchSize

Min(a, b) == IF a < b THEN a ELSE b

\* oldURLs.slice(startIndex, endIndex), both 0-based.
Slice(arr, startIndex, endIndex) == SubSeq(arr, startIndex + 1, Min(endIndex, Len(arr)))

\* The slice with an inclusive end index: the last record of a batch is lost.
BatchSliceInclusiveEnd(arr, num, batchSize) ==
  Slice(arr, num * batchSize, Min((num + 1) * batchSize, Len(arr)) - 1)

\* Lines 505-507.
BatchSlice(arr, num, batchSize) ==
  Slice(arr, num * batchSize, Min((num + 1) * batchSize, Len(arr)))

\* list.concat(all): the new batch in front of the accumulated entries.
ConcatInFront(all, list) == list \o all

\* all.concat(list)
Concat(all, list) == all \o list

Shift(positions, startIndex) == [k \in 1..Len(positions) |-> positions[k] + startIndex]

\* Lines 502-521: one iteration of the batch loop.  A TypeError thrown by
\* processBatch is caught at the end of generateURLMapping: the run ends.
RunBatch ==
  /\ pc = "batches"
  /\ batchNum < totalBatches
  /\ LET startIndex == batchNum * CONFIG.batchSize
         batchURLs  == BatchSlice(oldURLs, batchNum, CONFIG.batchSize)
         result     == processBatch(batchURLs, newProductIndex, skuIndex,
                                    CONFIG.categoryMappings)
     IN  /\ batch' = [startIndex |-> startIndex, batchURLs |-> batchURLs,
                      result |-> result]
         /\ IF result.threw
              THEN /\ pc' = "aborted"
                   /\ UNCHANGED <<batchNum, allMappings, allUnmapped,
                                  allCategoryMappings, allLoopDetected, allPushedBy>>
              ELSE /\ pc' = "batches"
                   /\ batchNum' = batchNum + 1
                   /\ allMappings' = Concat(allMappings, result.lists.mapping)
                   /\ allUnmapped' = Concat(allUnmapped, result.lists.unmapped)
                   /\ allCategoryMappings' =
                        Concat(allCategoryMappings, result.lists.categoryMappings)
                   /\ allLoopDetected' = Concat(allLoopDetected, result.lists.loopDetected)
                   /\ allPushedBy' =
                        [l \in ListNames |->
                           Concat(allPushedBy[l], Shift(result.pushedBy[l], startIndex))]
  /\ UNCHANGED fnVars
  /\ UNCHANGED <<oldURLs, newURLs, CONFIG, skuIndex, newProductIndex,
                 fileExists, fileWritten>>

\* Line 523: the batch loop has ended.
FinishBatches ==
  /\ pc = "batches"
  /\ batchNum >= totalBatches
  /\ pc' = "report"
  /\ UNCHANGED fnVars
  /\ UNCHANGED <<oldURLs, newURLs, CONFIG, skuIndex, newProductIndex, batchNum,
                 allMappings, allUnmapped, allCategoryMappings, allLoopDetected,
                 batch, allPushedBy, fileExists, fileWritten>>

\* Lines 564-595: the output file is written, and the loops file when there
\* is a loop entry.
WriteFiles ==
  /\ pc = "report"
  /\ pc' = "done"
  /\ fileWritten' =
       [outputFile |-> WrittenWith(fullCsvContent(allMappings, allCategoryMappings)),
        loopsFile  |-> IF Len(allLoopDetected) > 0
                         THEN WrittenWith(loopsCsvContent(allLoopDetected))
                         ELSE fileWritten.loopsFile]
  /\ UNCHANGED fnVars
  /\ UNCHANGED <<oldURLs, newURLs, CONFIG, skuIndex, newProductIndex, batchNum,
                 allMappings, allUnmapped, allCategoryMappings, allLoopDetected,
                 batch, allPushedBy, fileExists>>

(***************************************************************************)
(* Calls of the pure functions on their own.                               *)
(***************************************************************************)
\* A call of one of the two functions, or the write of the row of an
\* entry whose URL (a) and identifier (b) are fields of parsed records; the
\* engine does not run.
InitFn ==
  /\ call \in [fn : {"calculateNameSimilarity"}, a : Names, b : Names]
                \cup [fn : {"areUrlsEffectivelySame"}, a : Urls, b : Urls]
                \cup [fn : {"mappingRow", "loopRow"}, a : FieldValues, b : FieldValues]
                \cup [fn : {"cleanProductName"}, a : SpecifiedNames, b : {""}]
  /\ fnPc = "called"
  /\ retScore = Zero
  /\ retSame = FALSE
  /\ retRow = ""
  /\ retName = ""
  /\ oldURLs = <<>>
  /\ newURLs = <<>>
  /\ CONFIG = [categoryMappings |-> EmptyObject, batchSize |-> 1]
  /\ pc = "idle"
  /\ skuIndex = EmptyObject
  /\ newProductIndex = EmptyObject
  /\ batchNum = 0
  /\ allMappings = <<>>
  /\ allUnmapped = <<>>
  /\ allCategoryMappings = <<>>
  /\ allLoopDetected = <<>>
  /\ batch = NoBatch
  /\ allPushedBy = EmptyLists
  /\ fileExists = [oldUrlsFile |-> TRUE, newUrlsFile |-> TRUE]
  /\ fileWritten = NoFileWritten

ReturnSimilarity ==
  /\ fnPc = "called"
  /\ call.fn = "calculateNameSimilarity"
  /\ retScore' = calculateNameSimilarity(call.a, call.b)
  /\ fnPc' = "returned"
  /\ UNCHANGED <<call, retSame, retRow, retName>>
  /\ UNCHANGED engineVars

ReturnSame ==
  /\ fnPc = "called"
  /\ call.fn = "areUrlsEffectivelySame"
  /\ retSame' = areUrlsEffectivelySame(call.a, call.b)
  /\ fnPc' = "returned"
  /\ UNCHANGED <<call, retScore, retRow, retName>>
  /\ UNCHANGED engineVars

\* The fields of the row written for an identifier match of the record
\* (b, a) with the new-site record (b, /products/widget).
MappingFields(url, sku) ==
  <<url, "/products/widget", "", "widget", "sku_match", "1.00", sku>>

\* The fields of the row written for the loop of the record (b, a) with the
\* same record of the new-site list.
LoopFields(url, sku) == <<url, url, "identical_urls", "", "", sku>>

\* Line 569 for the entry that lines 291-299 push.
ReturnMappingRow ==
  /\ fnPc = "called"
  /\ call.fn = "mappingRow"
  /\ retRow' = MappingRow(MatchResult(call.a, "/products/widget", "", "widget",
                                       "sku_match", "1.00", call.b))
  /\ fnPc' = "returned"
  /\ UNCHANGED <<call, retScore, retSame, retName>>
  /\ UNCHANGED engineVars

\* Line 589 for the entry that lines 282-287 push.
ReturnLoopRow ==
  /\ fnPc = "called"
  /\ call.fn = "loopRow"
  /\ retRow' = LoopRow(LoopEntry(call.a, call.a, "identical_urls",
                                  Undefined, Undefined, call.b))
  /\ fnPc' = "returned"
  /\ UNCHANGED <<call, retScore, retSame, retName>>
  /\ UNCHANGED engineVars

ReturnCleanName ==
  /\ fnPc = "called"
  /\ call.fn = "cleanProductName"
  /\ retName' = cleanProductName(call.a)
  /\ fnPc' = "returned"
  /\ UNCHANGED <<call, retScore, retSame, retRow>>
  /\ UNCHANGED engineVars

(***************************************************************************)
(* The specifications: a run of the engine, and calls of the functions.    *)
(***************************************************************************)
Next ==
  \/ RejectMissingFile
  \/ RejectEmptyInput
  \/ BuildIndices
  \/ RunBatch
  \/ FinishBatches
  \/ WriteFiles

Spec == Init /\ [][Next]_vars

SpecKinds == InitKinds /\ [][Next]_vars

NextFn ==
  \/ ReturnSimilarity
  \/ ReturnSame
  \/ ReturnMappingRow
  \/ ReturnLoopRow
  \/ ReturnCleanName

SpecFn == InitFn /\ [][NextFn]_vars

(***************************************************************************)
(* Properties of a run of the engine.                                      *)
(***************************************************************************)
allLists ==
  [l \in ListNames |->
     CASE l = "mapping"          -> allMappings
       [] l = "unmapped"         -> allUnmapped
       [] l = "categoryMappings" -> allCategoryMappings
       [] l = "loopDetected"     -> allLoopDetected]

\* The number of entries of a processBatch result that record i pushed.
EntriesOf(result, i) ==
  Cardinality({k \in 1..Len(result.pushedBy["mapping"]) :
                 result.pushedBy["mapping"][k] = i})
    + Cardinality({k \in 1..Len(result.pushedBy["unmapped"]) :
                     result.pushedBy["unmapped"][k] = i})
    + Cardinality({k \in 1..Len(result.pushedBy["categoryMappings"]) :
                     result.pushedBy["categoryMappings"][k] = i})
    + Cardinality({k \in 1..Len(result.pushedBy["loopDetected"]) :
                     result.pushedBy["loopDetected"][k] = i})

TotalEntries(result) ==
  Len(result.lists["mapping"]) + Len(result.lists["unmapped"])
    + Len(result.lists["categoryMappings"]) + Len(result.lists["loopDetected"])

Dropped(result, n) == {i \in 1..n : EntriesOf(result, i) = 0}

\* C1: after processBatch has run, every record of the batch, counted by
\* position, has pushed one entry to one of the lists mapping, unmapped,
\* categoryMappings, loopDetected, or none at all; no record has pushed two,
\* so the entries of the four lists and the dropped records add up to the
\* number of records.
C1_Partition ==
  LET result == batch.result
      n      == Len(batch.batchURLs)
  IN  /\ \A l \in ListNames :
           /\ Len(result.lists[l]) = Len(result.pushedBy[l])
           /\ \A k \in 1..Len(result.pushedBy[l]) : result.pushedBy[l][k] \in 1..n
      /\ \A i \in 1..n : EntriesOf(result, i) \in {0, 1}
      /\ TotalEntries(result) + Cardinality(Dropped(result, n)) = n

\* A batch of two records has been processed: one was mapped, one dropped.
C1_Witness ==
  /\ pc = "batches"
  /\ Len(batch.batchURLs) = 2
  /\ ~batch.result.threw
  /\ Len(batch.result.lists["mapping"]) = 1
  /\ Cardinality(Dropped(batch.result, 2)) = 1

\* C2: no entry of the mapping list (identifier or name match) and no
\* resolved entry of the category list has an old and a new URL that
\* areUrlsEffectivelySame takes for the same, that is, whose paths are equal
\* after dropping trailing slashes and lower-casing.
C2_LoopGate ==
  /\ \A k \in 1..Len(allMappings) :
       /\ ~areUrlsEffectivelySame(allMappings[k].oldURL, allMappings[k].newURL)
       /\ ~( /\ NormalizedUrl(allMappings[k].oldURL).ok
             /\ NormalizedUrl(allMappings[k].newURL).ok
             /\ NormalizedUrl(allMappings[k].oldURL).path
                  = NormalizedUrl(allMappings[k].newURL).path )
  /\ \A k \in 1..Len(allCategoryMappings) :
       allCategoryMappings[k].newURL # Undefined =>
         ~areUrlsEffectivelySame(allCategoryMappings[k].oldURL,
                                 allCategoryMappings[k].newURL)

\* The loop detector has turned a name match into a loop entry and has let
\* another candidate through.
C2_Witness ==
  /\ Len(allMappings) > 0
  /\ \E k \in 1..Len(allLoopDetected) :
       allLoopDetected[k].reason = "identical_product"

\* The identifier of the record at position p is a key of the identifier index.
IdentifierIndexed(p) ==
  oldURLs[p].sku # "" /\ HasOwn(skuIndex, oldURLs[p].sku)

Processed == Min(batchNum * CONFIG.batchSize, Len(oldURLs))

\* C3: a record whose non-empty identifier is a key of the identifier index
\* yields a mapping entry with matchType sku_match and similarity "1.00", or
\* a loop entry with reason identical_urls, and nothing else: no name match,
\* no unmapped entry, no category entry, whatever its URL and the names of
\* the name index.
C3_IdentifierPriority ==
  /\ \A l \in ListNames : \A k \in 1..Len(allPushedBy[l]) :
       IdentifierIndexed(allPushedBy[l][k]) =>
         \/ /\ l = "mapping"
            /\ allMappings[k].matchType = "sku_match"
            /\ allMappings[k].similarity = "1.00"
         \/ /\ l = "loopDetected"
            /\ allLoopDetected[k].reason = "identical_urls"
  /\ \A p \in 1..Processed :
       IdentifierIndexed(p) =>
         \E l \in {"mapping", "loopDetected"} :
           \E k \in 1..Len(allPushedBy[l]) : allPushedBy[l][k] = p

\* A record with an indexed identifier whose name is also a key of the name
\* index has been matched by its identifier.
C3_Witness ==
  /\ pc = "report"
  /\ \E k \in 1..Len(allMappings) :
       /\ IdentifierIndexed(allPushedBy["mapping"][k])
       /\ allMappings[k].matchType = "sku_match"
       /\ HasOwn(newProductIndex, allMappings[k].oldName)

\* C4: the per-batch lists of the batch loop, concatenated, are the lists
\* of one processBatch call over all the records processed so far, and at
\* the end over the whole old-record list: same entries, same order, for
\* every batch size.
C4_BatchingTransparency ==
  pc \in {"batches", "report"} =>
    /\ pc = "report" => Processed = Len(oldURLs)
    /\ allLists = processBatch(SubSeq(oldURLs, 1, Processed), newProductIndex,
                               skuIndex, CONFIG.categoryMappings).lists

\* A run of two batches of one record each has ended with entries.
C4_Witness ==
  /\ pc = "report"
  /\ batchNum = 2
  /\ CONFIG.batchSize = 1
  /\ Len(allMappings) + Len(allLoopDetected) = 2

\* C5: in each accumulated list the entries stand in the order of the
\* records that pushed them: an entry of record i precedes an entry of
\* record j only if i < j.
C5_InputOrder ==
  \A l \in ListNames :
    /\ Len(allPushedBy[l]) = Len(allLists[l])
    /\ \A j, k \in 1..Len(allPushedBy[l]) :
         j < k => allPushedBy[l][j] < allPushedBy[l][k]

\* Two entries of one list come from two different batches.
C5_Witness ==
  /\ batchNum = 2
  /\ CONFIG.batchSize = 1
  /\ \E l \in ListNames : Len(allPushedBy[l]) = 2

\* The batch loop (lines 502-521) run from batch num to its end over given
\* indices: how it ends and the four accumulated lists.
RECURSIVE BatchLoopFrom(_, _, _, _, _, _)
BatchLoopFrom(old, config, nameIdx, skuIdx, num, acc) ==
  IF num * config.batchSize >= Len(old) THEN [ended |-> "report", lists |-> acc]
  ELSE LET result == processBatch(BatchSlice(old, num, config.batchSize),
                                  nameIdx, skuIdx, config.categoryMappings)
       IN  IF result.threw THEN [ended |-> "aborted", lists |-> acc]
           ELSE BatchLoopFrom(old, config, nameIdx, skuIdx, num + 1,
                              [l \in ListNames |-> Concat(acc[l], result.lists[l])])

\* A run of the engine on given inputs (lines 464-521): index building,
\* then the batch loop.
EngineRun(old, new, config) ==
  IF Len(old) = 0 \/ Len(new) = 0 THEN [ended |-> "aborted", lists |-> EmptyLists]
  ELSE LET built == BuildNameIndex(new, EmptyObject)
       IN  IF built.threw THEN [ended |-> "aborted", lists |-> EmptyLists]
           ELSE BatchLoopFrom(old, config, built.index,
                              BuildSkuIndex(new, EmptyObject), 0, EmptyLists)

C11_WriteOnlyAfterAllBatches ==
  /\ (~BothFilesExist \/ Len(oldURLs) = 0 \/ Len(newURLs) = 0) =>
       /\ pc \in {"read", "aborted"}
       /\ skuIndex = EmptyObject
       /\ newProductIndex = EmptyObject
       /\ batchNum = 0
       /\ batch = NoBatch
       /\ fileWritten = NoFileWritten
  /\ (fileWritten.outputFile.written \/ fileWritten.loopsFile.written) =>
       /\ pc = "done"
       /\ BothFilesExist
       /\ Len(oldURLs) > 0
       /\ Len(newURLs) > 0
       /\ batchNum = totalBatches
       /\ Processed = Len(oldURLs)
  /\ pc = "aborted" => fileWritten = NoFileWritten

\* A run with old records and an empty new-site list has ended without
\* writing a file.
C11_Witness ==
  /\ pc = "aborted"
  /\ BothFilesExist
  /\ Len(oldURLs) > 0
  /\ Len(newURLs) = 0
  /\ fileWritten = NoFileWritten

\* C13: the empty identifier is never a key of the identifier index, and
\* an old record with an empty identifier has no sku_match entry in the
\* mapping list and no identical_urls entry in the loop list, also when
\* new-site records have empty identifiers; its entry in the mapping list
\* is a name match.
C13_EmptyIdentifierFallsBack ==
  /\ ~HasOwn(skuIndex, "")
  /\ \A k \in 1..Len(allMappings) :
       oldURLs[allPushedBy["mapping"][k]].sku = "" =>
         /\ allMappings[k].matchType # "sku_match"
         /\ allMappings[k].matchType \in
              {"exact_match", "high_confidence_match",
               "medium_confidence_match", "low_confidence_match"}
  /\ \A k \in 1..Len(allLoopDetected) :
       oldURLs[allPushedBy["loopDetected"][k]].sku = "" =>
         allLoopDetected[k].reason # "identical_urls"

\* An old record and a new-site record, both without identifier, have been
\* matched by name.
C13_Witness ==
  /\ pc = "report"
  /\ \E j \in 1..Len(newURLs) : newURLs[j].sku = ""
  /\ \E k \in 1..Len(allMappings) :
       /\ oldURLs[allPushedBy["mapping"][k]].sku = ""
       /\ allMappings[k].matchType = "exact_match"
       /\ \E j \in 1..Len(newURLs) :
            newURLs[j].sku = "" /\ newURLs[j].url = allMappings[k].newURL

\* C14: with the mapping 'product-category/shirts' -> '/collections/shirts'
\* configured, a processed record without identifier match whose URL is
\* category-like and not product-like and whose path contains
\* 'product-category/shirts' has a resolved entry in the category list,
\* with matchType category_redirect and the new URL newSiteBaseUrl +
\* '/collections/shirts'.
C14_MultiSegmentCategoryKey ==
  \A p \in 1..Processed :
    ( /\ HasOwn(CONFIG.categoryMappings, "product-category/shirts")
      /\ ~IdentifierIndexed(p)
      /\ ~SomePattern(oldURLs[p].url, productUrlPatterns)
      /\ SomePattern(oldURLs[p].url, categoryUrlPatterns)
      /\ ResolvedUrl(oldURLs[p].url).ok
      /\ Includes(ResolvedUrl(oldURLs[p].url).pathname, "product-category/shirts") )
    => \E k \in 1..Len(allCategoryMappings) :
         /\ allPushedBy["categoryMappings"][k] = p
         /\ allCategoryMappings[k].matchType = "category_redirect"
         /\ allCategoryMappings[k].newURL = newSiteBaseUrl \o "/collections/shirts"

\* The positions, in insertion order, of the keys of the name index with
\* the highest score against a name.
MaxScoreKeys(name, nameIdx) ==
  {k \in 1..Len(nameIdx.keys) :
     \A j \in 1..Len(nameIdx.keys) :
       ScoreGe(Similarity(name, nameIdx.keys[k]), Similarity(name, nameIdx.keys[j]))}

\* The key inserted first among them.
FirstInsertedBestKey(name, nameIdx) == nameIdx.keys[SetMin(MaxScoreKeys(name, nameIdx))]

\* C15: when the name of an old record is no key of the name index, the
\* key behind its name match or its identical_product loop entry has the
\* highest score of all keys and is, among the keys with that score, the
\* one inserted first into the name index, also when keys are made of
\* digits only.
C15_FuzzyTieBreakByInsertion ==
  /\ \A k \in 1..Len(allMappings) :
       ( /\ allMappings[k].matchType # "sku_match"
         /\ ~HasOwn(newProductIndex, allMappings[k].oldName) )
       => allMappings[k].newName
            = FirstInsertedBestKey(allMappings[k].oldName, newProductIndex)
  /\ \A k \in 1..Len(allLoopDetected) :
       ( /\ allLoopDetected[k].reason = "identical_product"
         /\ ~HasOwn(newProductIndex, allLoopDetected[k].oldName) )
       => allLoopDetected[k].newName
            = FirstInsertedBestKey(allLoopDetected[k].oldName, newProductIndex)

\* Record i of the last batch is in the unmapped list of the batch, as its
\* bare URL.
InUnmapped(i) ==
  \E k \in 1..Len(batch.result.pushedBy["unmapped"]) :
    /\ batch.result.pushedBy["unmapped"][k] = i
    /\ batch.result.lists["unmapped"][k] = batch.batchURLs[i].url

\* No key of the name index scores above similarityThreshold against name.
NoKeyAboveThreshold(name, nameIdx) ==
  \A j \in 1..Len(nameIdx.keys) :
    ~ScoreGt(Similarity(name, nameIdx.keys[j]), similarityThreshold)

\* C16: a product-like record of a batch without identifier match is in the
\* unmapped list exactly when its extracted name is empty, or the name is no
\* key of the name index and no key scores strictly above
\* similarityThreshold against it; a best score equal to the threshold
\* leaves it unmapped.
C16_UnmappedExactlyWhenNoCandidate ==
  \A i \in 1..Len(batch.batchURLs) :
    ( /\ ~(batch.batchURLs[i].sku # "" /\ Truthy(skuIndex, batch.batchURLs[i].sku))
      /\ SomePattern(batch.batchURLs[i].url, productUrlPatterns) )
    => ( InUnmapped(i)
         <=> \/ ExtractedName(batch.batchURLs[i].url) = ""
             \/ /\ ~HasOwn(newProductIndex, ExtractedName(batch.batchURLs[i].url))
                /\ NoKeyAboveThreshold(ExtractedName(batch.batchURLs[i].url),
                                       newProductIndex) )

\* Entry k of the mapping list comes from the name branch: its record had
\* no identifier match.
NameBased(k) ==
  ~( /\ oldURLs[allPushedBy["mapping"][k]].sku # ""
     /\ Truthy(skuIndex, oldURLs[allPushedBy["mapping"][k]].sku) )

\* The type the ordered rule gives a score.
TypeOfScore(score) ==
  CASE score.n = score.d -> "exact_match"
    [] score.n # score.d /\ ScoreGe(score, highConfidenceThreshold) ->
         "high_confidence_match"
    [] /\ score.n # score.d
       /\ ~ScoreGe(score, highConfidenceThreshold)
       /\ ScoreGe(score, mediumConfidenceThreshold) -> "medium_confidence_match"
    [] OTHER -> "low_confidence_match"

\* C18: every name-based entry of the mapping list has the type its score s
\* gives by the ordered rule (1.0: exact_match; else s >= 0.8:
\* high_confidence_match; else s >= 0.6: medium_confidence_match; else
\* low_confidence_match), s being the similarity of its two names; the type
\* is one of these four, never sku_match or category_redirect, and the
\* thresholds are ordered 0.5 <= 0.6 <= 0.8.
C18_ClassifiedByScore ==
  /\ ScoreGe(mediumConfidenceThreshold, similarityThreshold)
  /\ ScoreGe(highConfidenceThreshold, mediumConfidenceThreshold)
  /\ \A k \in 1..Len(allMappings) :
       NameBased(k) =>
         /\ allMappings[k].matchType
              = TypeOfScore(Similarity(allMappings[k].oldName, allMappings[k].newName))
         /\ allMappings[k].matchType \in
              {"exact_match", "high_confidence_match",
               "medium_confidence_match", "low_confidence_match"}

\* A run has ended with a name match of medium and one of high confidence.
C18_Witness ==
  /\ pc = "report"
  /\ \E k \in 1..Len(allMappings) :
       NameBased(k) /\ allMappings[k].matchType = "medium_confidence_match"
  /\ \E k \in 1..Len(allMappings) :
       NameBased(k) /\ allMappings[k].matchType = "high_confidence_match"

\* The hundredths nearest to a score in [0, 1], halves rounded up.
Hundredths(score) ==
  CHOOSE h \in 0..100 :
    /\ 2 * h * score.d <= 200 * score.n + score.d
    /\ 200 * score.n + score.d < 2 * (h + 1) * score.d

\* A number of hundredths up to 100 written with two decimals.
TwoDecimals(h) ==
  Char(DigitChars, (h \div 100) + 1) \o "."
    \o Char(DigitChars, ((h % 100) \div 10) + 1) \o Char(DigitChars, (h % 10) + 1)

\* C19: the similarity field of every name-based entry of the mapping list
\* is the score of calculateNameSimilarity for the oldName and the newName
\* of that same entry, rounded to two decimals; these are the name
\* extracted from the entry's old URL and the name extracted from its new
\* URL.
C19_SimilarityOfReportedNames ==
  \A k \in 1..Len(allMappings) :
    NameBased(k) =>
      /\ allMappings[k].similarity
           = TwoDecimals(Hundredths(
               Similarity(allMappings[k].oldName, allMappings[k].newName)))
      /\ allMappings[k].oldName = ExtractedName(allMappings[k].oldURL)
      /\ allMappings[k].newName = ExtractedName(allMappings[k].newURL)

\* A fuzzy match of two names that share two of three words has been
\* reported with the similarity 0.67.
C19_Witness ==
  /\ pc = "report"
  /\ \E k \in 1..Len(allMappings) :
       /\ NameBased(k)
       /\ allMappings[k].oldName = "box-steel-red"
       /\ allMappings[k].newName = "steel-box"
       /\ allMappings[k].similarity = "0.67"

\* The number of entries of the four accumulated lists that the record at
\* position p pushed.
OutputsOf(p) ==
  Cardinality({k \in 1..Len(allPushedBy["mapping"]) : allPushedBy["mapping"][k] = p})
    + Cardinality({k \in 1..Len(allPushedBy["unmapped"]) :
                     allPushedBy["unmapped"][k] = p})
    + Cardinality({k \in 1..Len(allPushedBy["categoryMappings"]) :
                     allPushedBy["categoryMappings"][k] = p})
    + Cardinality({k \in 1..Len(allPushedBy["loopDetected"]) :
                     allPushedBy["loopDetected"][k] = p})

\* The record at position p has a loop entry with this reason and new URL.
HasLoopEntry(p, reason, newURL) ==
  \E k \in 1..Len(allLoopDetected) :
    /\ allPushedBy["loopDetected"][k] = p
    /\ allLoopDetected[k].reason = reason
    /\ allLoopDetected[k].newURL = newURL

\* The URL of the first record listed under a key of the name index.
FirstUnderKey(key) == newProductIndex.vals[OwnIndex(newProductIndex, key)][1].url

\* C20: a record with a loop entry has pushed that entry and nothing else,
\* to no list.  The entry of a record with an indexed identifier has the
\* reason identical_urls and the URL of the identifier index; else the
\* entry of a product-like record has the reason identical_product and the
\* URL of the first record under its key of the name index; else it has
\* the reason identical_category and the URL of a category mapping.  A
\* processed record whose candidate from the identifier index, or from the
\* name index under its own name, is a loop has such an entry, whatever
\* the other records of the name index are.
C20_LoopEntryEndsRecord ==
  /\ \A k \in 1..Len(allLoopDetected) :
       /\ OutputsOf(allPushedBy["loopDetected"][k]) = 1
       /\ areUrlsEffectivelySame(allLoopDetected[k].oldURL, allLoopDetected[k].newURL)
       /\ IF IdentifierIndexed(allPushedBy["loopDetected"][k])
            THEN /\ allLoopDetected[k].reason = "identical_urls"
                 /\ allLoopDetected[k].newURL
                      = skuIndex.vals[OwnIndex(skuIndex, allLoopDetected[k].sku)].url
          ELSE IF SomePattern(allLoopDetected[k].oldURL, productUrlPatterns)
            THEN /\ allLoopDetected[k].reason = "identical_product"
                 /\ HasOwn(newProductIndex, allLoopDetected[k].newName)
                 /\ allLoopDetected[k].newURL = FirstUnderKey(allLoopDetected[k].newName)
          ELSE /\ allLoopDetected[k].reason = "identical_category"
               /\ \E j \in 1..Len(CONFIG.categoryMappings.keys) :
                    allLoopDetected[k].newURL
                      = newSiteBaseUrl \o CONFIG.categoryMappings.vals[j]
  /\ \A p \in 1..Processed :
       /\ ( /\ IdentifierIndexed(p)
            /\ areUrlsEffectivelySame(
                 oldURLs[p].url, skuIndex.vals[OwnIndex(skuIndex, oldURLs[p].sku)].url) )
          => HasLoopEntry(p, "identical_urls",
                          skuIndex.vals[OwnIndex(skuIndex, oldURLs[p].sku)].url)
       /\ ( /\ ~IdentifierIndexed(p)
            /\ SomePattern(oldURLs[p].url, productUrlPatterns)
            /\ HasOwn(newProductIndex, ExtractedName(oldURLs[p].url))
            /\ areUrlsEffectivelySame(
                 oldURLs[p].url, FirstUnderKey(ExtractedName(oldURLs[p].url))) )
          => HasLoopEntry(p, "identical_product",
                          FirstUnderKey(ExtractedName(oldURLs[p].url)))

\* A record has ended in an identical_product loop entry while the name
\* index held another key, whose record would not have been a loop.
C20_Witness ==
  /\ pc = "report"
  /\ \E k \in 1..Len(allLoopDetected) :
       /\ allLoopDetected[k].reason = "identical_product"
       /\ \E j \in 1..Len(newProductIndex.keys) :
            ~areUrlsEffectivelySame(allLoopDetected[k].oldURL,
                                    newProductIndex.vals[j][1].url)

\* The record at position p was not taken by the identifier branch: the
\* test of line 277 failed for it.
NoIdentifierMatch(p) ==
  ~(oldURLs[p].sku # "" /\ Truthy(skuIndex, oldURLs[p].sku))

\* The URL of the record at position p holds a category marker and no
\* product marker.
CategoryOnly(p) ==
  /\ ~SomePattern(oldURLs[p].url, productUrlPatterns)
  /\ SomePattern(oldURLs[p].url, categoryUrlPatterns)

\* The non-empty segments of the path of a URL that parses.
PathSegments(url) == FilterTruthy(Split(ResolvedUrl(url).pathname, "/"))

\* The positions of the segments that are keys of the table.
MappedSegments(segments, mappings) ==
  {j \in 1..Len(segments) :
     \E k \in 1..Len(mappings.keys) : mappings.keys[k] = segments[j]}

\* The value the table maps a key to.
MappedValue(mappings, key) ==
  mappings.vals[CHOOSE k \in 1..Len(mappings.keys) : mappings.keys[k] = key]

\* newSiteBaseUrl followed by the value of the first segment, in path
\* order, that is a key of the table.
CategoryCandidate(segments, mappings) ==
  newSiteBaseUrl
    \o MappedValue(mappings, segments[SetMin(MappedSegments(segments, mappings))])

\* The record at position p has pushed this entry to the category list.
HasCategoryEntry(p, entry) ==
  \E k \in 1..Len(allCategoryMappings) :
    /\ allPushedBy["categoryMappings"][k] = p
    /\ allCategoryMappings[k] = entry

PushedTo(p, l) == \E k \in 1..Len(allPushedBy[l]) : allPushedBy[l][k] = p

\* The record at position p has this entry, by its type, in the mapping list.
HasMatchOfType(p, types) ==
  \E k \in 1..Len(allMappings) :
    allPushedBy["mapping"][k] = p /\ allMappings[k].matchType \in types

\* The record at position p has a loop entry with this reason.
HasLoopReason(p, reason) ==
  \E k \in 1..Len(allLoopDetected) :
    allPushedBy["loopDetected"][k] = p /\ allLoopDetected[k].reason = reason

LastCarrying(sku) ==
  IF \E j \in 1..Len(newURLs) : newURLs[j].sku = sku
    THEN CHOOSE j \in 1..Len(newURLs) :
           /\ newURLs[j].sku = sku
           /\ \A i \in (j + 1)..Len(newURLs) : newURLs[i].sku # sku
    ELSE 0

\* C23: once the indices are built, the keys of the identifier index are
\* the non-empty identifiers of the new-site list, each mapped to the last
\* record that carries it; and the new URL of every sku_match entry of the
\* mapping list is the URL of the last new-site record whose identifier is
\* the identifier of the old record.
C23_LastWriterWins ==
  /\ pc \in {"batches", "report", "done"} =>
       /\ \A j \in 1..Len(newURLs) :
            newURLs[j].sku # "" =>
              /\ HasOwn(skuIndex, newURLs[j].sku)
              /\ skuIndex.vals[OwnIndex(skuIndex, newURLs[j].sku)]
                   = newURLs[LastCarrying(newURLs[j].sku)]
       /\ \A k \in 1..Len(skuIndex.keys) :
            skuIndex.keys[k] # "" /\ LastCarrying(skuIndex.keys[k]) > 0
  /\ \A k \in 1..Len(allMappings) :
       allMappings[k].matchType = "sku_match" =>
         /\ allMappings[k].sku = oldURLs[allPushedBy["mapping"][k]].sku
         /\ LastCarrying(allMappings[k].sku) > 0
         /\ allMappings[k].newURL = newURLs[LastCarrying(allMappings[k].sku)].url

\* C25: no entry of the mapping list and no resolved entry of the category
\* list redirects a URL to itself: its new URL is never the same string as
\* its old URL, also when the URLs of old and new records do not parse.
C25_NoLiteralSelfRedirect ==
  /\ \A k \in 1..Len(allMappings) : allMappings[k].newURL # allMappings[k].oldURL
  /\ \A k \in 1..Len(allCategoryMappings) :
       allCategoryMappings[k].newURL # Undefined =>
         allCategoryMappings[k].newURL # allCategoryMappings[k].oldURL

\* C26: an entry of the mapping list has the matchType exact_match only when
\* its old name and its new name are equal after lower-casing; two names
\* that differ as lower-cased strings are never reported as an exact match.
C26_ExactMatchMeansEqualNames ==
  \A k \in 1..Len(allMappings) :
    allMappings[k].matchType = "exact_match" =>
      /\ allMappings[k].similarity = "1.00"
      /\ ToLowerCase(allMappings[k].oldName) = ToLowerCase(allMappings[k].newName)

\* C27: every new URL the engine reports is taken from its inputs.  The new
\* URL of a sku_match entry is the URL of a new-site record with the
\* identifier of the old record; the new URL of a name match is the URL of
\* a new-site record whose extracted name is the entry's new name, a key of
\* the name index; the new URL of a resolved category entry is
\* newSiteBaseUrl followed by a value of categoryMappings.
C27_NoInventedTargets ==
  /\ \A k \in 1..Len(allMappings) :
       IF allMappings[k].matchType = "sku_match"
         THEN \E j \in 1..Len(newURLs) :
                /\ newURLs[j].sku = oldURLs[allPushedBy["mapping"][k]].sku
                /\ newURLs[j].url = allMappings[k].newURL
         ELSE /\ HasOwn(newProductIndex, allMappings[k].newName)
              /\ \E j \in 1..Len(newURLs) :
                   /\ newURLs[j].url = allMappings[k].newURL
                   /\ ExtractedName(newURLs[j].url) = allMappings[k].newName
  /\ \A k \in 1..Len(allCategoryMappings) :
       allCategoryMappings[k].newURL # Undefined =>
         \E j \in 1..Len(CONFIG.categoryMappings.vals) :
           allCategoryMappings[k].newURL
             = newSiteBaseUrl \o CONFIG.categoryMappings.vals[j]

\* C10: no record makes processBatch throw, so that every record after it
\* is processed, and a record whose URL does not parse has no entry in the
\* mapping list: it is in the unmapped list or has no entry at all.
C10_FailuresContained ==
  /\ ~batch.result.threw
  /\ \A k \in 1..Len(allMappings) : ResolvedUrl(allMappings[k].oldURL).ok
  /\ \A k \in 1..Len(batch.result.lists["mapping"]) :
       ResolvedUrl(batch.result.lists["mapping"][k].oldURL).ok

(***************************************************************************)
(* Properties of the calls of the pure functions.                          *)
(***************************************************************************)
SimilarityReturned == fnPc = "returned" /\ call.fn = "calculateNameSimilarity"

SameReturned == fnPc = "returned" /\ call.fn = "areUrlsEffectivelySame"

\* C7: the score calculateNameSimilarity returns lies between 0 and 1, and
\* the score of a non-empty name with itself is 1.
C7_SimilarityRange ==
  SimilarityReturned =>
    /\ retScore.d > 0
    /\ 0 <= retScore.n
    /\ retScore.n <= retScore.d
    /\ (call.a = call.b /\ call.a # "") => ScoreEq(retScore, One)

\* A name of two words has been scored against itself.
C7_Witness ==
  /\ SimilarityReturned
  /\ call.a = "a-b"
  /\ call.b = "a-b"
  /\ retScore = One

\* C8: calculateNameSimilarity(a, b) = calculateNameSimilarity(b, a) for
\* all names, the empty name and names that differ only in case included.
C8_SimilaritySymmetric ==
  SimilarityReturned =>
    ScoreEq(retScore, calculateNameSimilarity(call.b, call.a))

\* A name has been scored against a longer name that contains it.
C8_Witness ==
  /\ SimilarityReturned
  /\ call.a = "a"
  /\ call.b = "ab-b"
  /\ retScore = NineTenths

\* The hyphen-separated words of a name: its maximal stretches without a
\* hyphen, the empty stretch before a leading, after a trailing or between
\* two adjacent hyphens included.
HyphenWords(name) ==
  {SubSeq(name, i, j) : <<i, j>> \in
     {p \in (1..(Len(name) + 1)) \X (0..Len(name)) :
        /\ p[2] >= p[1] - 1
        /\ \A k \in p[1]..p[2] : Char(name, k) # "-"
        /\ (p[1] = 1 \/ Char(name, p[1] - 1) = "-")
        /\ (p[2] = Len(name) \/ Char(name, p[2] + 1) = "-")}}

\* C17: the score returned for two names is 0 when one of them is empty;
\* else 1 when they are equal after lower-casing; else 0.9 when one
\* lower-cased name is a substring of the other; else the number of common
\* hyphen-separated words divided by the number of words of either name.
C17_SimilarityRules ==
  SimilarityReturned =>
    IF call.a = "" \/ call.b = "" THEN ScoreEq(retScore, Zero)
    ELSE IF ToLowerCase(call.a) = ToLowerCase(call.b) THEN ScoreEq(retScore, One)
    ELSE IF \/ Includes(ToLowerCase(call.a), ToLowerCase(call.b))
            \/ Includes(ToLowerCase(call.b), ToLowerCase(call.a))
      THEN ScoreEq(retScore, NineTenths)
    ELSE /\ retScore.d > 0
         /\ retScore.n * Cardinality(HyphenWords(ToLowerCase(call.a))
                                       \cup HyphenWords(ToLowerCase(call.b)))
              = retScore.d * Cardinality(HyphenWords(ToLowerCase(call.a))
                                           \cap HyphenWords(ToLowerCase(call.b)))

\* Two names that share one of their three words, neither a substring of
\* the other, have been scored one third.
C17_Witness ==
  /\ SimilarityReturned
  /\ call.a = "a-b"
  /\ call.b = "b-ab"
  /\ retScore.n = 1
  /\ retScore.d = 3

\* C9: areUrlsEffectivelySame(a, b) = areUrlsEffectivelySame(b, a) for all
\* URL strings, absolute or path-only, parseable or not.
C9_LoopSymmetric ==
  SameReturned => retSame = areUrlsEffectivelySame(call.b, call.a)

\* An absolute URL and a path that differ in case and in a trailing slash
\* have been found the same.
C9_Witness ==
  /\ SameReturned
  /\ call.a = "http://old.com/A"
  /\ call.b = "/a/"
  /\ retSame

NameReturned == fnPc = "returned" /\ call.fn = "cleanProductName"

\* s is a unit suffix: a hyphen, then nothing, a number, or a number and a
\* hyphen, then the unit.
IsUnitSuffix(s, unit) ==
  /\ Len(s) >= Len(unit) + 1
  /\ Char(s, 1) = "-"
  /\ SubSeq(s, Len(s) - Len(unit) + 1, Len(s)) = unit
  /\ \/ Len(s) = Len(unit) + 1
     \/ \A k \in 2..(Len(s) - Len(unit)) : IsDigit(Char(s, k))
     \/ /\ Len(s) >= Len(unit) + 3
        /\ Char(s, Len(s) - Len(unit)) = "-"
        /\ \A k \in 2..(Len(s) - Len(unit) - 1) : IsDigit(Char(s, k))

\* The positions at which a unit suffix of the name starts.
UnitSuffixStarts(name) ==
  {i \in 1..Len(name) :
     \E unit \in Units : IsUnitSuffix(SubSeq(name, i, Len(name)), unit)}

\* The name after the rules that are not about units: the lone final digit,
\* the dimensions and the trailing hyphens.
WithoutUnitRules(name) ==
  StripTrailing(RemoveDims2(RemoveDims3(StripFinalDigit(name))), "-")

\* C24: the name cleanProductName returns has no trailing hyphen.  When the
\* name ends with a unit suffix (a hyphen, an optional number with an
\* optional hyphen after it, and one of mil, inch, oz, lb, gal), the result
\* is what precedes the suffix, as for 'film-80-mil' and 'film-mil', which
\* both give 'film'.  When the name does not end with a unit suffix, the
\* unit rules remove nothing from it.
C24_UnitSuffixStripped ==
  NameReturned =>
    /\ retName = "" \/ Char(retName, Len(retName)) # "-"
    /\ IF UnitSuffixStarts(call.a) # {}
         THEN retName
                = StripTrailing(SubSeq(call.a, 1, SetMin(UnitSuffixStarts(call.a)) - 1), "-")
         ELSE retName = WithoutUnitRules(call.a)

(***************************************************************************)
(* A reader of one row of a CSV file: a field that starts with a double    *)
(* quote runs to the next double quote that is not doubled, which a comma  *)
(* or the end of the row must follow; a doubled quote stands for one.      *)
(***************************************************************************)
Malformed == [ok |-> FALSE, field |-> "", next |-> 0]

\* The quoted field read from position j on, acc being what was read of it.
RECURSIVE ReadQuoted(_, _, _)
ReadQuoted(s, j, acc) ==
  IF j > Len(s) THEN Malformed
  ELSE IF Char(s, j) # "\"" THEN ReadQuoted(s, j + 1, acc \o Char(s, j))
  ELSE IF Char(s, j + 1) = "\"" THEN ReadQuoted(s, j + 2, acc \o "\"")
  ELSE IF j = Len(s) \/ Char(s, j + 1) = ","
    THEN [ok |-> TRUE, field |-> acc, next |-> j + 1]
  ELSE Malformed

\* The unquoted field that starts at i and ends before position stop.
ReadUnquoted(s, i, stop) ==
  [ok |-> TRUE, field |-> SubSeq(s, i, stop - 1), next |-> stop]

ReadField(s, i) ==
  IF Char(s, i) = "\"" THEN ReadQuoted(s, i + 1, "")
  ELSE ReadUnquoted(s, i, MinOr({k \in i..Len(s) : Char(s, k) = ","}, Len(s) + 1))

RECURSIVE ReadFieldsFrom(_, _)

\* The fields of s after the field f.
ReadFieldsAfter(s, f) ==
  IF ~f.ok THEN <<"<malformed>">>
  ELSE IF f.next > Len(s) THEN <<f.field>>
  ELSE <<f.field>> \o ReadFieldsFrom(s, f.next + 1)

ReadFieldsFrom(s, i) == ReadFieldsAfter(s, ReadField(s, i))

\* The fields of a written row, without its line end.
ReadCsvRow(row) == ReadFieldsFrom(SubSeq(row, 1, Len(row) - 1), 1)

RowReturned == fnPc = "returned" /\ call.fn \in {"mappingRow", "loopRow"}

\* C12: every row written to the mapping file or to the loops file reads
\* back as the 7 or 6 field values it was written from, whatever URL and
\* identifier the record parser has produced: a value with a double quote
\* is written with that quote escaped.
C12_RowsReadBack ==
  RowReturned =>
    ReadCsvRow(retRow) = IF call.fn = "mappingRow"
                           THEN MappingFields(call.a, call.b)
                           ELSE LoopFields(call.a, call.b)

====
